---- MODULE Spec2Model ----
(***************************************************************************)
(* A model of the pooled connection handle (pgxpool.Conn: Release, Hijack) *)
(* and of the pipelined batch (pgx.Batch: Queue, Send, ExecResults,        *)
(* QueryResults, Close, die).                                              *)
(*                                                                         *)
(* SpecPool  is the handle / resource life cycle of src/pgxpool/conn.go.   *)
(* SpecBatch is the batch protocol of src/unnamed/part_000.                *)
(***************************************************************************)
EXTENDS Integers, Sequences, FiniteSets, TLC

(***************************************************************************)
(* Bounds of the model.                                                    *)
(***************************************************************************)
NumHandles == 2
NumResources == 1
MaxItems == 4
MaxReleases == 2

Handles == 1..NumHandles
Resources == 1..NumResources

\* c.res == nil: the handle holds no resource.
NoRes == 0

\* p.maxConnLifetime, the configured maximum lifetime (in ticks of the clock).
maxConnLifetime == 1

\* The clock runs until a resource created at time 0 has expired.
MaxTime == maxConnLifetime + 1

VARIABLES
  \* ---- pgxpool.Conn / Pool / puddle.Resource ----
  res,                  \* res[h]: c.res of handle h (NoRes when nil)
  hstate,               \* hstate[h]: "unused" | "acquired" | "released" | "hijacked"
  rstatus,              \* puddle's view of resource r:
                        \*   "absent" | "idle" | "acquired" | "hijacked" | "destroyed"
  connStatus,           \* connStatus[r]: "idle" | "busy" | "closed" (pgconn status)
  connTx,               \* connTx[r]: TxStatus() of the connection, "I" | "T" | "E"
  creationTime,         \* creationTime[r]: res.CreationTime()
  now,                  \* the clock
  afterRelease,         \* TRUE iff p.afterRelease # nil
  hook,                 \* hook[r]: "none" | "running" (the goroutine of Release)
  hookStarts,           \* hookStarts[r]: number of afterRelease(conn) invocations
  primCalls,            \* primCalls[r]: calls made on the puddle resource
  lifetimeDestroyCount, \* p.lifetimeDestroyCount
  hcSignals,            \* number of triggerHealthCheck() calls
  hcPending,            \* the number of health-check cycles that are pending
  \* ---- pgx.Batch and its connection ----
  items,                \* b.items: the queued batchItems
  resultsRead,          \* b.resultsRead
  sent,                 \* b.sent
  err,                  \* b.err, the sticky error ("nil" when none)
  ctx,                  \* b.ctx: "nil" | "live" | "cancelled"
  connPool,             \* TRUE iff b.connPool # nil
  preparedStatements,   \* b.conn.preparedStatements (the cached statement texts)
  pendingReadyForQueryCount, \* b.conn.pendingReadyForQueryCount
  txStatus,             \* b.conn.txStatus, as last read from a ReadyForQuery
  alive,                \* b.conn.IsAlive()
  wire,                 \* the backend messages sent by the server and not yet read
  written,              \* the frontend messages of the transmission of Send
  sentItems,            \* the number of items in that transmission
  failedAt,             \* the item the server failed at (0: none)
  rowsOpen,             \* a Rows cursor of the batch is open
  poolReleases,         \* the number of b.connPool.Release(b.conn) calls
  poolState,            \* what the pool did with the connection:
                        \*   "held" | "idle" | "destroyed"
  blocked,              \* the caller waits for a message that never comes
  died,                 \* b.die has been called
  \* ---- both ----
  lastOp                \* the operation that made the last step

poolVars == <<res, hstate, rstatus, connStatus, connTx, creationTime, now,
              afterRelease, hook, hookStarts, primCalls, lifetimeDestroyCount,
              hcSignals, hcPending>>

batchVars == <<items, resultsRead, sent, err, ctx, connPool,
               preparedStatements, pendingReadyForQueryCount, txStatus, alive,
               wire, written, sentItems, failedAt, rowsOpen, poolReleases,
               poolState, blocked, died>>

vars == <<poolVars, batchVars, lastOp>>

Op(name, h, out) == [op |-> name, h |-> h, out |-> out]

NoCalls == [release |-> 0, destroy |-> 0, hijack |-> 0]

\* A batch that has just been created by BeginBatch on an open connection.
NewBatch ==
  /\ items = <<>>
  /\ resultsRead = 0
  /\ sent = FALSE
  /\ err = "nil"
  /\ ctx = "nil"
  /\ txStatus = "I"
  /\ alive = TRUE
  /\ written = <<>>
  /\ sentItems = 0
  /\ failedAt = 0
  /\ rowsOpen = FALSE
  /\ poolReleases = 0
  /\ poolState = "held"
  /\ blocked = FALSE
  /\ died = FALSE

InitPool ==
  /\ NewBatch
  /\ pendingReadyForQueryCount = 0
  /\ wire = <<>>
  /\ connPool = FALSE
  /\ preparedStatements = {}
  /\ res = [h \in Handles |-> NoRes]
  /\ hstate = [h \in Handles |-> "unused"]
  /\ rstatus = [r \in Resources |-> "absent"]
  /\ connStatus = [r \in Resources |-> "idle"]
  /\ connTx = [r \in Resources |-> "I"]
  /\ creationTime = [r \in Resources |-> 0]
  /\ now = 0
  /\ afterRelease \in BOOLEAN
  /\ hook = [r \in Resources |-> "none"]
  /\ hookStarts = [r \in Resources |-> 0]
  /\ primCalls = [r \in Resources |-> NoCalls]
  /\ lifetimeDestroyCount = 0
  /\ hcSignals = 0
  /\ hcPending = 0
  /\ lastOp = Op("init", 0, "ok")

(***************************************************************************)
(* The pool primitive (puddle.Resource) and the pool's helpers.            *)
(***************************************************************************)
\* conn.IsClosed() || conn.PgConn().IsBusy() || conn.PgConn().TxStatus() != 'I'
Unhealthy(r) ==
  \/ connStatus[r] = "closed"
  \/ connStatus[r] = "busy"
  \/ connTx[r] # "I"

\* c.p.isExpired(res): the resource's age exceeds the maximum lifetime.
isExpired(r) == now - creationTime[r] > maxConnLifetime

\* res.Release(): the resource goes back to the idle set.
ResRelease(r) ==
  /\ rstatus' = [rstatus EXCEPT ![r] = "idle"]
  /\ primCalls' = [primCalls EXCEPT ![r].release = @ + 1]
  /\ UNCHANGED <<connStatus, connTx>>

\* res.Destroy(): the resource is removed from the pool and its connection
\* is closed by the pool's destructor.
ResDestroy(r) ==
  /\ rstatus' = [rstatus EXCEPT ![r] = "destroyed"]
  /\ primCalls' = [primCalls EXCEPT ![r].destroy = @ + 1]
  /\ connStatus' = [connStatus EXCEPT ![r] = "closed"]
  /\ UNCHANGED connTx

\* res.Hijack(): the resource leaves the pool, the connection stays open.
ResHijack(r) ==
  /\ rstatus' = [rstatus EXCEPT ![r] = "hijacked"]
  /\ primCalls' = [primCalls EXCEPT ![r].hijack = @ + 1]
  /\ UNCHANGED <<connStatus, connTx>>

triggerHealthCheckPerSignal ==
  /\ hcSignals' = hcSignals + 1
  /\ hcPending' = hcPending + 1

\* c.p.triggerHealthCheck(): a non-blocking, coalescing signal. A cycle is
\* scheduled unless one is pending already, and the caller goes on.
triggerHealthCheck ==
  /\ hcSignals' = hcSignals + 1
  /\ hcPending' = IF hcPending = 0 THEN hcPending + 1 ELSE hcPending

(***************************************************************************)
(* Acquire: the pool primitive hands out an idle resource, or constructs a *)
(* new one (the first, or one in place of a destroyed one), wrapped in a   *)
(* fresh handle: the k-th Acquire makes handle k.                          *)
(***************************************************************************)
Acquire(h, r) ==
  /\ UNCHANGED batchVars
  /\ hstate[h] = "unused"
  /\ \A g \in Handles : g < h => hstate[g] # "unused"
  /\ rstatus[r] \in {"absent", "idle", "destroyed"}
  /\ res' = [res EXCEPT ![h] = r]
  /\ hstate' = [hstate EXCEPT ![h] = "acquired"]
  /\ rstatus' = [rstatus EXCEPT ![r] = "acquired"]
  /\ IF rstatus[r] = "idle"
       THEN UNCHANGED <<creationTime, connStatus, connTx, hookStarts, primCalls>>
       ELSE \* the pool constructs a new resource with a new connection
            /\ creationTime' = [creationTime EXCEPT ![r] = now]
            /\ connStatus' = [connStatus EXCEPT ![r] = "idle"]
            /\ connTx' = [connTx EXCEPT ![r] = "I"]
            /\ hookStarts' = [hookStarts EXCEPT ![r] = 0]
            /\ primCalls' = [primCalls EXCEPT ![r] = NoCalls]
  /\ lastOp' = Op("Acquire", h, "ok")
  /\ UNCHANGED <<now, afterRelease, hook, lifetimeDestroyCount, hcSignals,
                 hcPending>>

(***************************************************************************)
(* The caller uses the acquired connection: a command is left running, a  *)
(* transaction is left open or failed, or the connection gets closed.     *)
(***************************************************************************)
ConnStates ==
  {<<"idle", "I">>, <<"idle", "T">>, <<"idle", "E">>,
   <<"busy", "I">>, <<"closed", "I">>}

Use(h, s) ==
  /\ UNCHANGED batchVars
  /\ res[h] # NoRes
  /\ connStatus[res[h]] # "closed"
  /\ s \in ConnStates
  /\ s # <<connStatus[res[h]], connTx[res[h]]>>
  /\ connStatus' = [connStatus EXCEPT ![res[h]] = s[1]]
  /\ connTx' = [connTx EXCEPT ![res[h]] = s[2]]
  /\ lastOp' = Op("Use", h, "ok")
  /\ UNCHANGED <<res, hstate, rstatus, creationTime, now, afterRelease, hook,
                 hookStarts, primCalls, lifetimeDestroyCount, hcSignals,
                 hcPending>>

(***************************************************************************)
(* Conn.Release                                                            *)
(***************************************************************************)
ReleaseNoClear(h) ==
  /\ UNCHANGED batchVars
  /\ hstate[h] # "unused"
  /\ IF res[h] = NoRes
       THEN /\ lastOp' = Op("Release", h, "noop")
            /\ UNCHANGED poolVars
       ELSE LET r == res[h] IN
            /\ UNCHANGED res
            /\ hstate' = [hstate EXCEPT ![h] = "released"]
            /\ ResRelease(r)
            /\ lastOp' = Op("Release", h, "idle")
            /\ UNCHANGED <<creationTime, now, afterRelease, hook, hookStarts,
                           lifetimeDestroyCount, hcSignals, hcPending>>

ReleaseExpiryFirst(h) ==
  /\ UNCHANGED batchVars
  /\ hstate[h] # "unused"
  /\ IF res[h] = NoRes
       THEN /\ lastOp' = Op("Release", h, "noop")
            /\ UNCHANGED poolVars
       ELSE LET r == res[h] IN
            /\ res' = [res EXCEPT ![h] = NoRes]
            /\ hstate' = [hstate EXCEPT ![h] = "released"]
            /\ IF isExpired(r)
                 THEN /\ lifetimeDestroyCount' = lifetimeDestroyCount + 1
                      /\ ResDestroy(r)
                      /\ triggerHealthCheck
                      /\ lastOp' = Op("Release", h, "expired")
                      /\ UNCHANGED <<hook, hookStarts>>
                 ELSE /\ ResRelease(r)
                      /\ lastOp' = Op("Release", h, "idle")
                      /\ UNCHANGED <<lifetimeDestroyCount, hcSignals, hcPending,
                                     hook, hookStarts>>
            /\ UNCHANGED <<creationTime, now, afterRelease>>

ReleaseHookAndRelease(h) ==
  /\ UNCHANGED batchVars
  /\ hstate[h] # "unused"
  /\ IF res[h] = NoRes
       THEN /\ lastOp' = Op("Release", h, "noop")
            /\ UNCHANGED poolVars
       ELSE LET r == res[h] IN
            /\ res' = [res EXCEPT ![h] = NoRes]
            /\ hstate' = [hstate EXCEPT ![h] = "released"]
            /\ IF Unhealthy(r)
                 THEN /\ ResDestroy(r)
                      /\ triggerHealthCheck
                      /\ lastOp' = Op("Release", h, "unhealthy")
                      /\ UNCHANGED <<lifetimeDestroyCount, hook, hookStarts>>
               ELSE IF isExpired(r)
                 THEN /\ lifetimeDestroyCount' = lifetimeDestroyCount + 1
                      /\ ResDestroy(r)
                      /\ triggerHealthCheck
                      /\ lastOp' = Op("Release", h, "expired")
                      /\ UNCHANGED <<hook, hookStarts>>
               ELSE IF ~afterRelease
                 THEN /\ ResRelease(r)
                      /\ lastOp' = Op("Release", h, "idle")
                      /\ UNCHANGED <<lifetimeDestroyCount, hcSignals, hcPending,
                                     hook, hookStarts>>
               ELSE /\ hook' = [hook EXCEPT ![r] = "running"]
                    /\ hookStarts' = [hookStarts EXCEPT ![r] = @ + 1]
                    /\ ResRelease(r)
                    /\ lastOp' = Op("Release", h, "hook")
                    /\ UNCHANGED <<lifetimeDestroyCount, hcSignals, hcPending>>
            /\ UNCHANGED <<creationTime, now, afterRelease>>

Release(h) ==
  /\ UNCHANGED batchVars
  /\ hstate[h] # "unused"
  /\ IF res[h] = NoRes
       THEN \* if c.res == nil { return }
            /\ lastOp' = Op("Release", h, "noop")
            /\ UNCHANGED poolVars
       ELSE LET r == res[h] IN
            /\ res' = [res EXCEPT ![h] = NoRes]
            /\ hstate' = [hstate EXCEPT ![h] = "released"]
            /\ IF Unhealthy(r)
                 THEN /\ ResDestroy(r)
                      /\ triggerHealthCheck
                      /\ lastOp' = Op("Release", h, "unhealthy")
                      /\ UNCHANGED <<lifetimeDestroyCount, hook, hookStarts>>
               ELSE IF isExpired(r)
                 THEN /\ lifetimeDestroyCount' = lifetimeDestroyCount + 1
                      /\ ResDestroy(r)
                      /\ triggerHealthCheck
                      /\ lastOp' = Op("Release", h, "expired")
                      /\ UNCHANGED <<hook, hookStarts>>
               ELSE IF ~afterRelease
                 THEN /\ ResRelease(r)
                      /\ lastOp' = Op("Release", h, "idle")
                      /\ UNCHANGED <<lifetimeDestroyCount, hcSignals, hcPending,
                                     hook, hookStarts>>
               ELSE \* go func() { ... }()
                      /\ hook' = [hook EXCEPT ![r] = "running"]
                      /\ hookStarts' = [hookStarts EXCEPT ![r] = @ + 1]
                      /\ lastOp' = Op("Release", h, "hook")
                      /\ UNCHANGED <<rstatus, primCalls, connStatus, connTx,
                                     lifetimeDestroyCount, hcSignals, hcPending>>
            /\ UNCHANGED <<creationTime, now, afterRelease>>

(***************************************************************************)
(* The goroutine started by Release: c.p.afterRelease(conn) runs on the    *)
(* connection, then the resource is released or destroyed.                 *)
(***************************************************************************)
HookUse(r, s) ==
  /\ UNCHANGED batchVars
  /\ hook[r] = "running"
  /\ connStatus[r] # "closed"
  /\ s \in ConnStates
  /\ s # <<connStatus[r], connTx[r]>>
  /\ connStatus' = [connStatus EXCEPT ![r] = s[1]]
  /\ connTx' = [connTx EXCEPT ![r] = s[2]]
  /\ lastOp' = Op("HookUse", 0, "ok")
  /\ UNCHANGED <<res, hstate, rstatus, creationTime, now, afterRelease, hook,
                 hookStarts, primCalls, lifetimeDestroyCount, hcSignals,
                 hcPending>>

HookDoneKeepsRunning(r, approve) ==
  /\ UNCHANGED batchVars
  /\ hook[r] = "running"
  /\ rstatus[r] = "acquired"
  /\ UNCHANGED hook
  /\ IF approve
       THEN /\ ResRelease(r)
            /\ lastOp' = Op("HookDone", 0, "idle")
            /\ UNCHANGED <<hcSignals, hcPending>>
       ELSE /\ ResDestroy(r)
            /\ triggerHealthCheck
            /\ lastOp' = Op("HookDone", 0, "rejected")
  /\ UNCHANGED <<res, hstate, creationTime, now, afterRelease, hookStarts,
                 lifetimeDestroyCount>>

HookDoneNoSignal(r, approve) ==
  /\ UNCHANGED batchVars
  /\ hook[r] = "running"
  /\ hook' = [hook EXCEPT ![r] = "none"]
  /\ IF approve
       THEN /\ ResRelease(r)
            /\ lastOp' = Op("HookDone", 0, "idle")
       ELSE /\ ResDestroy(r)
            /\ lastOp' = Op("HookDone", 0, "rejected")
  /\ UNCHANGED <<res, hstate, creationTime, now, afterRelease, hookStarts,
                 lifetimeDestroyCount, hcSignals, hcPending>>

HookDone(r, approve) ==
  /\ UNCHANGED batchVars
  /\ hook[r] = "running"
  /\ hook' = [hook EXCEPT ![r] = "none"]
  /\ IF approve
       THEN /\ ResRelease(r)
            /\ lastOp' = Op("HookDone", 0, "idle")
            /\ UNCHANGED <<hcSignals, hcPending>>
       ELSE /\ ResDestroy(r)
            /\ triggerHealthCheck
            /\ lastOp' = Op("HookDone", 0, "rejected")
  /\ UNCHANGED <<res, hstate, creationTime, now, afterRelease, hookStarts,
                 lifetimeDestroyCount>>

(***************************************************************************)
(* Conn.Hijack                                                             *)
(***************************************************************************)
HijackNoClear(h) ==
  /\ UNCHANGED batchVars
  /\ hstate[h] # "unused"
  /\ IF res[h] = NoRes
       THEN /\ lastOp' = Op("Hijack", h, "panic")
            /\ UNCHANGED poolVars
       ELSE /\ UNCHANGED res
            /\ hstate' = [hstate EXCEPT ![h] = "hijacked"]
            /\ ResHijack(res[h])
            /\ lastOp' = Op("Hijack", h, "ok")
            /\ UNCHANGED <<creationTime, now, afterRelease, hook, hookStarts,
                           lifetimeDestroyCount, hcSignals, hcPending>>

Hijack(h) ==
  /\ UNCHANGED batchVars
  /\ hstate[h] # "unused"
  /\ IF res[h] = NoRes
       THEN \* panic("cannot hijack already released or hijacked connection")
            /\ lastOp' = Op("Hijack", h, "panic")
            /\ UNCHANGED poolVars
       ELSE /\ res' = [res EXCEPT ![h] = NoRes]
            /\ hstate' = [hstate EXCEPT ![h] = "hijacked"]
            /\ ResHijack(res[h])
            /\ lastOp' = Op("Hijack", h, "ok")
            /\ UNCHANGED <<creationTime, now, afterRelease, hook, hookStarts,
                           lifetimeDestroyCount, hcSignals, hcPending>>

(***************************************************************************)
(* The environment: time passes; the health-check loop takes the signal.   *)
(***************************************************************************)
Tick ==
  /\ UNCHANGED batchVars
  /\ now < MaxTime
  /\ now' = now + 1
  /\ lastOp' = Op("Tick", 0, "ok")
  /\ UNCHANGED <<res, hstate, rstatus, connStatus, connTx, creationTime,
                 afterRelease, hook, hookStarts, primCalls,
                 lifetimeDestroyCount, hcSignals, hcPending>>

HealthCheck ==
  /\ UNCHANGED batchVars
  /\ hcPending > 0
  /\ hcPending' = hcPending - 1
  /\ lastOp' = Op("HealthCheck", 0, "ok")
  /\ UNCHANGED <<res, hstate, rstatus, connStatus, connTx, creationTime, now,
                 afterRelease, hook, hookStarts, primCalls,
                 lifetimeDestroyCount, hcSignals>>

NextPool ==
  \/ \E h \in Handles, r \in Resources : Acquire(h, r)
  \/ \E h \in Handles, s \in ConnStates : Use(h, s)
  \/ \E h \in Handles : Release(h)
  \/ \E h \in Handles : Hijack(h)
  \/ \E r \in Resources, s \in ConnStates : HookUse(r, s)
  \/ \E r \in Resources, a \in BOOLEAN : HookDone(r, a)
  \/ Tick
  \/ HealthCheck

SpecPool == InitPool /\ [][NextPool]_vars

(***************************************************************************)
(* pgx.Batch: the statements, the messages and the server.                 *)
(***************************************************************************)
\* The statement texts a caller queues.
Queries == {"select", "update"}

\* batchItem: the statement text and whether its arguments can be encoded.
Items ==
  {[query |-> "select", argsOK |-> TRUE],
   [query |-> "update", argsOK |-> TRUE],
   [query |-> "update", argsOK |-> FALSE]}

\* Whether the server answers Describe with a RowDescription (else NoData).
ReturnsRows(q) == q = "select"

\* A backend message: its type, the batch item it answers (0: none), the
\* command tag of a CommandComplete and the status of a ReadyForQuery.
Msg(t, item, tag, tx) == [t |-> t, item |-> item, tag |-> tag, tx |-> tx]

NoMsg == Msg("none", 0, "-", "-")

\* A frontend message: its type and the statement text or name it carries.
FMsg(t, q) == [t |-> t, q |-> q]

appendItemAlwaysParse(bi, prep) ==
  <<FMsg("Parse", bi.query),
    FMsg("Bind", IF bi.query \in prep THEN bi.query ELSE ""),
    FMsg("Describe", ""), FMsg("Execute", "")>>

\* The Parse (unless cached), Bind, Describe and Execute steps of one item.
appendItem(bi, prep) ==
  (IF bi.query \in prep THEN <<>> ELSE <<FMsg("Parse", bi.query)>>)
    \o <<FMsg("Bind", IF bi.query \in prep THEN bi.query ELSE ""),
         FMsg("Describe", ""), FMsg("Execute", "")>>

RECURSIVE appendItems(_, _)
appendItems(its, prep) ==
  IF its = <<>> THEN <<>>
  ELSE appendItem(Head(its), prep) \o appendItems(Tail(its), prep)

\* The buffer Send builds: begin, the items, Sync, commit.
buildBuf(its, prep) ==
  <<FMsg("Query", "begin")>> \o appendItems(its, prep)
    \o <<FMsg("Sync", ""), FMsg("Query", "commit")>>

\* The server's answer to the steps of item i that succeeds.
itemResponses(i, bi, prep) ==
  (IF bi.query \in prep THEN <<>> ELSE <<Msg("ParseComplete", i, "-", "-")>>)
    \o <<Msg("BindComplete", i, "-", "-")>>
    \o (IF ReturnsRows(bi.query)
          THEN <<Msg("RowDescription", i, "-", "-"), Msg("DataRow", i, "-", "-")>>
          ELSE <<Msg("NoData", i, "-", "-")>>)
    \o <<Msg("CommandComplete", i, "ITEM", "-")>>

\* The server's answers to the items: after the error of item failPos it
\* discards every message up to Sync.
RECURSIVE serverItems(_, _, _, _)
serverItems(its, prep, i, failPos) ==
  IF i > Len(its) THEN <<>>
  ELSE IF i = failPos THEN <<Msg("ErrorResponse", i, "-", "-")>>
  ELSE itemResponses(i, its[i], prep) \o serverItems(its, prep, i + 1, failPos)

\* The server's answers to the whole transmission; failPos = 0: no
\* statement fails. A commit in a failed transaction rolls it back.
serverResponses(its, prep, failPos) ==
  <<Msg("CommandComplete", 0, "BEGIN", "-"), Msg("ReadyForQuery", 0, "-", "T")>>
    \o serverItems(its, prep, 1, failPos)
    \o <<Msg("ReadyForQuery", 0, "-", IF failPos = 0 THEN "T" ELSE "E"),
         Msg("CommandComplete", 0, IF failPos = 0 THEN "COMMIT" ELSE "ROLLBACK", "-"),
         Msg("ReadyForQuery", 0, "-", "I")>>

(***************************************************************************)
(* The functions of the batch, on a record s of the batch's and the        *)
(* connection's fields. s.up tells whether the network works during the    *)
(* call; s.io counts the reads and writes on the socket. A function        *)
(* returns the new record, the error it returns ("nil": none; "blocked":   *)
(* it never returns) and the message it stopped at.                        *)
(***************************************************************************)
Res(s, e, m) == [s |-> s, err |-> e, msg |-> m]

\* b.ctx.Err()
ctxErr(s) == IF s.ctx = "cancelled" THEN "ctxErr" ELSE "nil"

\* c.die(err): the connection is closed, what was unread is dropped.
connDie(s) == [s EXCEPT !.alive = FALSE, !.wire = <<>>]

\* c.rxMsg(): the next backend message.
rxMsg(s) ==
  IF ~s.alive THEN Res(s, "ErrDeadConn", NoMsg)
  ELSE IF ~s.up THEN Res(connDie([s EXCEPT !.io = @ + 1]), "netErr", NoMsg)
  ELSE IF s.wire = <<>> THEN Res([s EXCEPT !.io = @ + 1], "blocked", NoMsg)
  ELSE Res([s EXCEPT !.wire = Tail(@), !.io = @ + 1], "nil", Head(s.wire))

\* c.processContextFreeMsg(msg)
processContextFreeMsg(s, m) ==
  IF m.t = "ErrorResponse" THEN Res(s, "pgErr", m)
  ELSE IF m.t = "ReadyForQuery"
    THEN Res([s EXCEPT !.pending = @ - 1, !.tx = m.tx], "nil", m)
  ELSE Res(s, "nil", m)

\* c.ensureConnectionReadyForQuery()
RECURSIVE ensureConnectionReadyForQuery(_)
ensureConnectionReadyForQuery(s) ==
  IF s.pending <= 0 THEN Res(s, "nil", NoMsg)
  ELSE LET r == rxMsg(s) IN
       IF r.err # "nil" THEN r
       ELSE IF r.msg.t = "ErrorResponse" THEN ensureConnectionReadyForQuery(r.s)
       ELSE ensureConnectionReadyForQuery(processContextFreeMsg(r.s, r.msg).s)

\* c.termContext(err)
termContext(s, opErr) == opErr

\* p.Release(conn): the pool keeps the connection when it is usable and
\* destroys it otherwise.
connPoolRelease(s) ==
  LET bad == ~s.alive \/ s.pending > 0 \/ s.tx # "I" IN
  [s EXCEPT !.poolReleases = @ + 1,
            !.poolState = IF bad THEN "destroyed" ELSE "idle",
            !.alive = ~bad,
            !.wire = IF bad THEN <<>> ELSE @]

\* Batch.die
die(s, e) ==
  LET s0 == [s EXCEPT !.dies = @ + 1] IN
  IF s.err # "nil" THEN s0
  ELSE LET s1 == connDie([s0 EXCEPT !.err = e]) IN
       IF s1.connPool THEN connPoolRelease(s1) ELSE s1

\* The read loop of Batch.ExecResults.
RECURSIVE execLoop(_)
execLoop(s) ==
  LET r == rxMsg(s) IN
  IF r.err # "nil" THEN r
  ELSE IF r.msg.t = "CommandComplete" THEN r
  ELSE LET p == processContextFreeMsg(r.s, r.msg) IN
       IF p.err # "nil" THEN p ELSE execLoop(p.s)

execResultsNoDie(s) ==
  IF s.err # "nil" THEN Res(s, s.err, NoMsg)
  ELSE IF s.ctx = "nil" THEN Res(s, "panic", NoMsg)
  ELSE IF s.ctx = "cancelled" THEN Res(s, ctxErr(s), NoMsg)
  ELSE execLoop([s EXCEPT !.resultsRead = @ + 1])

\* Batch.ExecResults
execResults(s) ==
  IF s.err # "nil" THEN Res(s, s.err, NoMsg)
  ELSE IF s.ctx = "nil" THEN Res(s, "panic", NoMsg)
  ELSE IF s.ctx = "cancelled" THEN Res(die(s, ctxErr(s)), ctxErr(s), NoMsg)
  ELSE execLoop([s EXCEPT !.resultsRead = @ + 1])

\* c.readUntilRowDescription()
RECURSIVE readUntilRowDescription(_)
readUntilRowDescription(s) ==
  LET r == rxMsg(s) IN
  IF r.err # "nil" THEN r
  ELSE IF r.msg.t = "RowDescription" THEN r
  ELSE LET p == processContextFreeMsg(r.s, r.msg) IN
       IF p.err # "nil" THEN p ELSE readUntilRowDescription(p.s)

\* Batch.QueryResults
queryResults(s) ==
  IF s.err # "nil" THEN Res(s, s.err, NoMsg)
  ELSE IF s.ctx = "nil" THEN Res(s, "panic", NoMsg)
  ELSE IF s.ctx = "cancelled" THEN Res(die(s, ctxErr(s)), ctxErr(s), NoMsg)
  ELSE LET r == readUntilRowDescription([s EXCEPT !.resultsRead = @ + 1]) IN
       IF r.err = "blocked" THEN r
       ELSE IF r.err # "nil" THEN Res(die(r.s, ctxErr(r.s)), r.err, r.msg)
       ELSE Res([r.s EXCEPT !.rowsOpen = TRUE], "nil", r.msg)

\* Rows.Next on a cursor of the batch: the next DataRow, or the end of the
\* rows at CommandComplete, which closes the cursor.
RECURSIVE rowsNext(_)
rowsNext(s) ==
  LET r == rxMsg(s) IN
  IF r.err = "blocked" THEN r
  ELSE IF r.err # "nil" THEN Res([r.s EXCEPT !.rowsOpen = FALSE], r.err, r.msg)
  ELSE IF r.msg.t = "DataRow" THEN r
  ELSE IF r.msg.t = "CommandComplete"
    THEN Res([r.s EXCEPT !.rowsOpen = FALSE], "nil", r.msg)
  ELSE LET p == processContextFreeMsg(r.s, r.msg) IN
       IF p.err # "nil" THEN Res([p.s EXCEPT !.rowsOpen = FALSE], p.err, p.msg)
       ELSE rowsNext(p.s)

\* The read loop of Batch.Send: up to the first ReadyForQuery.
RECURSIVE sendLoop(_)
sendLoop(s) ==
  LET r == rxMsg(s) IN
  IF r.err # "nil" THEN r
  ELSE IF r.msg.t = "ReadyForQuery" THEN r
  ELSE LET p == processContextFreeMsg(r.s, r.msg) IN
       IF p.err # "nil" THEN p ELSE sendLoop(p.s)

sendCountsBeforeWrite(s, c, its, prep, failPos, w) ==
  IF s.err # "nil" THEN Res(s, s.err, NoMsg)
  ELSE LET s1 == [s EXCEPT !.ctx = c]
           e == ensureConnectionReadyForQuery(s1)
           e2 == [e.s EXCEPT !.pending = @ + 2]
       IN
       IF e.err # "nil" THEN e
       ELSE IF c = "cancelled" THEN Res(e.s, "ctxErr", NoMsg)
       ELSE IF \E i \in 1..Len(its) : ~its[i].argsOK THEN Res(e.s, "bindErr", NoMsg)
       ELSE IF w = "fail" THEN Res([e2 EXCEPT !.io = @ + 1], "writeErr", NoMsg)
       ELSE IF w = "fatal"
         THEN Res(connDie([e2 EXCEPT !.io = @ + 1]), "writeErr", NoMsg)
       ELSE sendLoop([e2 EXCEPT
                        !.io = @ + 1,
                        !.written = buildBuf(its, prep),
                        !.sentItems = Len(its),
                        !.failedAt = failPos,
                        !.wire = @ \o serverResponses(its, prep, failPos),
                        !.sent = TRUE])

\* Batch.Send: c is the context given, w the outcome of conn.Write
\* ("ok" | "fail" | "fatal"), failPos the item the server will fail at.
send(s, c, its, prep, failPos, w) ==
  IF s.err # "nil" THEN Res(s, s.err, NoMsg)
  ELSE LET s1 == [s EXCEPT !.ctx = c]
           e == ensureConnectionReadyForQuery(s1)
       IN
       IF e.err # "nil" THEN e
       ELSE IF c = "cancelled" THEN Res(e.s, "ctxErr", NoMsg)
       ELSE IF \E i \in 1..Len(its) : ~its[i].argsOK THEN Res(e.s, "bindErr", NoMsg)
       ELSE IF w = "fail" THEN Res([e.s EXCEPT !.io = @ + 1], "writeErr", NoMsg)
       ELSE IF w = "fatal"
         THEN Res(connDie([e.s EXCEPT !.io = @ + 1]), "writeErr", NoMsg)
       ELSE sendLoop([e.s EXCEPT
                        !.io = @ + 1,
                        !.written = buildBuf(its, prep),
                        !.sentItems = Len(its),
                        !.failedAt = failPos,
                        !.wire = @ \o serverResponses(its, prep, failPos),
                        !.pending = @ + 2,
                        !.sent = TRUE])

\* The body of Batch.Close: the forced reads, then the idle-state check.
RECURSIVE closeLoop(_, _, _)
closeLoop(s, i, n) ==
  IF i >= n THEN ensureConnectionReadyForQuery(s)
  ELSE LET r == execResults(s) IN
       IF r.err # "nil" THEN r ELSE closeLoop(r.s, i + 1, n)

\* The deferred function of Batch.Close.
closeDeferred(r) ==
  LET e == termContext(r.s, r.err) IN
  Res(IF r.s.connPool THEN connPoolRelease(r.s) ELSE r.s, e, r.msg)

closeReleaseOnSuccessOnly(s, n) ==
  IF s.err # "nil" THEN Res(s, s.err, NoMsg)
  ELSE LET r == closeLoop(s, s.resultsRead, n) IN
       IF r.err = "blocked" THEN r
       ELSE IF r.err # "nil" THEN r
       ELSE closeDeferred(r)

\* Batch.Close; n = len(b.items)
close(s, n) ==
  IF s.err # "nil" THEN Res(s, s.err, NoMsg)
  ELSE LET r == closeLoop(s, s.resultsRead, n) IN
       IF r.err = "blocked" THEN r ELSE closeDeferred(r)

(***************************************************************************)
(* The batch's operations as steps.                                        *)
(***************************************************************************)
\* The fields of the batch and its connection; up: the network works.
Cur(up) ==
  [wire |-> wire, pending |-> pendingReadyForQueryCount, tx |-> txStatus,
   alive |-> alive, err |-> err, resultsRead |-> resultsRead, ctx |-> ctx,
   connPool |-> connPool, poolReleases |-> poolReleases,
   poolState |-> poolState, rowsOpen |-> rowsOpen, sent |-> sent,
   written |-> written, sentItems |-> sentItems, failedAt |-> failedAt,
   dies |-> 0, up |-> up, io |-> 0]

\* The call named name returned r: its effects are stored.
Done(name, r) ==
  /\ wire' = r.s.wire
  /\ pendingReadyForQueryCount' = r.s.pending
  /\ txStatus' = r.s.tx
  /\ alive' = r.s.alive
  /\ err' = r.s.err
  /\ resultsRead' = r.s.resultsRead
  /\ ctx' = r.s.ctx
  /\ poolReleases' = r.s.poolReleases
  /\ poolState' = r.s.poolState
  /\ rowsOpen' = r.s.rowsOpen
  /\ sent' = r.s.sent
  /\ written' = r.s.written
  /\ sentItems' = r.s.sentItems
  /\ failedAt' = r.s.failedAt
  /\ died' = (died \/ r.s.dies > 0)
  /\ blocked' = (r.err = "blocked")
  /\ lastOp' = [op |-> name, err |-> r.err, item |-> r.msg.item,
                tag |-> r.msg.tag, io |-> r.s.io > 0, die |-> r.s.dies > 0]
  /\ UNCHANGED <<connPool, preparedStatements>>

\* The model follows the result reads up to the second one past the last
\* item.
ExtraReads == 2

\* The connection is idle, or the ReadyForQuery of an earlier query on it has
\* not been read yet.
InitBatch ==
  /\ NewBatch
  /\ \/ pendingReadyForQueryCount = 0 /\ wire = <<>>
     \/ pendingReadyForQueryCount = 1 /\ wire = <<Msg("ReadyForQuery", 0, "-", "I")>>
  /\ connPool \in BOOLEAN
  /\ preparedStatements = {"select"}
  /\ res = [h \in Handles |-> NoRes]
  /\ hstate = [h \in Handles |-> "unused"]
  /\ rstatus = [r \in Resources |-> "absent"]
  /\ connStatus = [r \in Resources |-> "idle"]
  /\ connTx = [r \in Resources |-> "I"]
  /\ creationTime = [r \in Resources |-> 0]
  /\ now = 0
  /\ afterRelease = FALSE
  /\ hook = [r \in Resources |-> "none"]
  /\ hookStarts = [r \in Resources |-> 0]
  /\ primCalls = [r \in Resources |-> NoCalls]
  /\ lifetimeDestroyCount = 0
  /\ hcSignals = 0
  /\ hcPending = 0
  /\ lastOp = [op |-> "BeginBatch", err |-> "nil", item |-> 0, tag |-> "-",
                io |-> FALSE, die |-> FALSE]

\* Batch.Queue. The code does not refuse a Queue after Send; the model
\* follows one such late item.
Queue(bi) ==
  /\ ~blocked
  /\ sent => Len(items) = sentItems
  /\ Len(items) < MaxItems
  /\ items' = Append(items, bi)
  /\ lastOp' = [op |-> "Queue", err |-> "nil", item |-> 0, tag |-> "-",
                io |-> FALSE, die |-> FALSE]
  /\ UNCHANGED <<resultsRead, sent, err, ctx, connPool, preparedStatements,
                 pendingReadyForQueryCount, txStatus, alive, wire, written,
                 sentItems, failedAt, rowsOpen, poolReleases, poolState,
                 blocked, died>>
  /\ UNCHANGED poolVars

\* What a Send meets: a context that is cancelled already; a write that
\* fails; reads that fail; or a server that runs the statements and fails
\* at item failPos (0: at none).
SendInputs ==
  {<<"cancelled", 0, "ok", TRUE>>, <<"live", 0, "fail", TRUE>>,
   <<"live", 0, "fatal", TRUE>>, <<"live", 0, "ok", FALSE>>}
    \cup {<<"live", p, "ok", TRUE>> : p \in 0..Len(items)}

\* Batch.Send, once per batch unless it failed before the transmission.
Send(c, failPos, w, up) ==
  /\ ~blocked
  /\ ~sent
  /\ <<c, failPos, w, up>> \in SendInputs
  /\ Done("Send", send(Cur(up), c, items, preparedStatements, failPos, w))
  /\ UNCHANGED items
  /\ UNCHANGED poolVars

\* Batch.ExecResults, valid only after Send.
ExecResults(up) ==
  /\ ~blocked
  /\ sent
  /\ resultsRead < Len(items) + ExtraReads
  /\ poolReleases < MaxReleases
  /\ Done("ExecResults", execResults(Cur(up)))
  /\ UNCHANGED items
  /\ UNCHANGED poolVars

\* Batch.QueryResults, valid only after Send.
QueryResults(up) ==
  /\ ~blocked
  /\ sent
  /\ resultsRead < Len(items) + ExtraReads
  /\ poolReleases < MaxReleases
  /\ Done("QueryResults", queryResults(Cur(up)))
  /\ UNCHANGED items
  /\ UNCHANGED poolVars

\* Rows.Next on an open cursor of the batch.
RowsNext(up) ==
  /\ ~blocked
  /\ rowsOpen
  /\ Done("RowsNext", rowsNext(Cur(up)))
  /\ UNCHANGED items
  /\ UNCHANGED poolVars

\* Batch.Close
Close(up) ==
  /\ ~blocked
  /\ poolReleases < MaxReleases
  /\ Done("Close", close(Cur(up), Len(items)))
  /\ UNCHANGED items
  /\ UNCHANGED poolVars

\* The caller cancels the context given to Send.
Cancel ==
  /\ ctx = "live"
  /\ ctx' = "cancelled"
  /\ lastOp' = [op |-> "Cancel", err |-> "nil", item |-> 0, tag |-> "-",
                io |-> FALSE, die |-> FALSE]
  /\ UNCHANGED <<items, resultsRead, sent, err, connPool, preparedStatements,
                 pendingReadyForQueryCount, txStatus, alive, wire, written,
                 sentItems, failedAt, rowsOpen, poolReleases, poolState,
                 blocked, died>>
  /\ UNCHANGED poolVars

NextBatch ==
  \/ \E bi \in Items : Queue(bi)
  \/ \E c \in {"live", "cancelled"}, failPos \in 0..MaxItems,
        w \in {"ok", "fail", "fatal"}, up \in BOOLEAN :
       Send(c, failPos, w, up)
  \/ \E up \in BOOLEAN : ExecResults(up)
  \/ \E up \in BOOLEAN : QueryResults(up)
  \/ \E up \in BOOLEAN : RowsNext(up)
  \/ \E up \in BOOLEAN : Close(up)
  \/ Cancel

SpecBatch == InitBatch /\ [][NextBatch]_vars

(***************************************************************************)
(* Claims about the pooled handle, checked under SpecPool.                 *)
(***************************************************************************)
\* What a caller or the pool can observe of a Release.
poolEffects == <<rstatus, primCalls, hcSignals, hcPending, lifetimeDestroyCount,
                 hook, hookStarts, connStatus, connTx, res>>

\* The step is a call of Release on handle h.
IsRelease(h) == lastOp'.op = "Release" /\ lastOp'.h = h

\* The step is a call of Hijack on handle h.
IsHijack(h) == lastOp'.op = "Hijack" /\ lastOp'.h = h

\* C1: a Release on a handle that was already released changes nothing: no
\* call on the pool primitive, no health-check signal, no change of the
\* lifetime-destroy counter, no hook started.
C1_SecondReleaseIsNoOp ==
  [][\A h \in Handles :
       (IsRelease(h) /\ hstate[h] = "released") => UNCHANGED poolEffects]_vars

\* C1 witness: a second Release has run on a released handle whose resource
\* went back to the pool or was destroyed.
C1_Witness ==
  /\ lastOp.op = "Release"
  /\ lastOp.out = "noop"
  /\ hstate[lastOp.h] = "released"
  /\ \E r \in Resources : primCalls[r].release + primCalls[r].destroy = 1

\* C2 (as claimed): every resource in the idle set has a connection that is
\* not closed, not busy and has transaction status idle.
C2_IdleConnsHealthy ==
  \A r \in Resources : rstatus[r] = "idle" => ~Unhealthy(r)

\* C3 (as claimed): a Release of an expired resource destroys it and adds
\* exactly 1 to the lifetime-destroy counter, whatever the connection state.
C3_ExpiredAlwaysCounted ==
  [][\A h \in Handles :
       (IsRelease(h) /\ res[h] # NoRes /\ isExpired(res[h]))
         => /\ rstatus'[res[h]] = "destroyed"
            /\ lifetimeDestroyCount' = lifetimeDestroyCount + 1]_vars

\* C3 (amended): a Release of an expired resource destroys it; the
\* lifetime-destroy counter grows by exactly 1 when the connection is not
\* closed, not busy and its transaction status is idle, and is unchanged
\* when the connection is closed, busy or in a transaction.
C3_ExpiredCountedWhenHealthy ==
  [][\A h \in Handles :
       (IsRelease(h) /\ res[h] # NoRes /\ isExpired(res[h]))
         => /\ rstatus'[res[h]] = "destroyed"
            /\ primCalls'[res[h]].destroy = primCalls[res[h]].destroy + 1
            /\ lifetimeDestroyCount' =
                 lifetimeDestroyCount + (IF Unhealthy(res[h]) THEN 0 ELSE 1)]_vars

\* C3 witness: a healthy, expired resource was destroyed by Release and
\* counted.
C3_Witness ==
  /\ lastOp.op = "Release"
  /\ lastOp.out = "expired"
  /\ lifetimeDestroyCount = 1
  /\ \E r \in Resources : rstatus[r] = "destroyed" /\ now - creationTime[r] > maxConnLifetime

\* C4: Hijack on an acquired handle makes one Hijack call on the pool
\* primitive and no Release or Destroy, and clears the handle; a later
\* Release on that handle changes nothing; Hijack on a released or hijacked
\* handle panics and changes nothing.
C4_Hijack ==
  [][\A h \in Handles :
       /\ (IsHijack(h) /\ hstate[h] = "acquired")
            => /\ lastOp'.out = "ok"
               /\ res'[h] = NoRes
               /\ primCalls' = [primCalls EXCEPT ![res[h]].hijack = @ + 1]
               /\ rstatus'[res[h]] = "hijacked"
               /\ UNCHANGED <<hcSignals, lifetimeDestroyCount, hookStarts>>
       /\ (IsRelease(h) /\ hstate[h] = "hijacked") => UNCHANGED poolEffects
       /\ (IsHijack(h) /\ hstate[h] \in {"released", "hijacked"})
            => /\ lastOp'.out = "panic"
               /\ UNCHANGED poolEffects]_vars

\* C4 witness: a second Hijack has panicked on a hijacked handle, the
\* resource being out of the pool after exactly one Hijack call.
C4_Witness ==
  /\ lastOp.op = "Hijack"
  /\ lastOp.out = "panic"
  /\ hstate[lastOp.h] = "hijacked"
  /\ \E r \in Resources : rstatus[r] = "hijacked" /\ primCalls[r].hijack = 1

(***************************************************************************)
(* Claims about the batch, checked under SpecBatch.                        *)
(***************************************************************************)
\* The step is a call of ExecResults or QueryResults.
IsRead == lastOp'.op \in {"ExecResults", "QueryResults"}

\* The step is a call of Close.
IsClose == lastOp'.op = "Close"

\* The batch was transmitted with all the items it holds.
SentWhole == sent /\ Len(items) = sentItems

\* Nothing has gone wrong so far: the connection is open, the context is
\* live, there is no sticky error.
Sound == alive /\ err = "nil" /\ ctx = "live"

\* C5 (as claimed): after a successful Send of N items whose statements all
\* succeed and k <= N result reads of any kind, Close returns success and
\* leaves no outstanding ReadyForQuery and no unread message.
C5_CloseDrains ==
  [][(IsClose /\ SentWhole /\ Sound /\ failedAt = 0
        /\ resultsRead <= Len(items) /\ lastOp'.err # "netErr")
       => /\ lastOp'.err = "nil"
          /\ ~blocked'
          /\ pendingReadyForQueryCount' = 0
          /\ wire' = <<>>]_vars

\* C6 (as claimed): on a sent batch of N items, a result read after N reads
\* returns an error: it neither returns a result nor blocks.
C6_ExtraReadFails ==
  [][(IsRead /\ SentWhole /\ Sound /\ resultsRead >= Len(items))
       => lastOp'.err \notin {"nil", "blocked"}]_vars

\* C7 (as claimed): the k-th result read of a sent batch returns the result
\* (or the error) of item k and of no other item.
C7_ResultsInOrder ==
  [][(IsRead /\ SentWhole /\ Sound /\ resultsRead < Len(items)
        /\ lastOp'.err \in {"nil", "pgErr"})
       => lastOp'.item = resultsRead']_vars

\* C8 (as claimed): when a statement of the sent batch has failed and its
\* result has been read, Close returns, with the connection resynchronized
\* to idle or destroyed.
C8_CloseAfterError ==
  [][(IsClose /\ SentWhole /\ Sound /\ failedAt >= 1
        /\ resultsRead >= failedAt /\ resultsRead <= Len(items))
       => /\ ~blocked'
          /\ \/ pendingReadyForQueryCount' = 0 /\ txStatus' = "I"
             \/ ~alive']_vars

\* C9 (as claimed): a write failure in Send and a read failure in Send,
\* ExecResults or QueryResults becomes the sticky error, and with a sticky
\* error every call returns it without touching the network.
C9_FailuresAreSticky ==
  [][/\ (lastOp'.op \in {"Send", "ExecResults", "QueryResults"}
           /\ lastOp'.err \in {"netErr", "writeErr"})
          => err' = lastOp'.err
     /\ (lastOp'.op \in {"Send", "ExecResults", "QueryResults", "Close"}
           /\ err # "nil")
          => (lastOp'.err = err /\ ~lastOp'.io)]_vars

\* C10: a Close of a pool-bound batch without sticky error that returns
\* has released the connection to the pool, whatever it returns.
C10_CloseReleases ==
  [][(IsClose /\ connPool /\ err = "nil" /\ ~blocked')
       => /\ poolReleases' >= poolReleases + 1
          /\ poolState' # "held"]_vars

\* C10 witness: a forced result read of Close failed on the statement's
\* error and the connection went to the pool.
C10_Witness ==
  /\ lastOp.op = "Close"
  /\ lastOp.err = "pgErr"
  /\ connPool
  /\ poolReleases = 1
  /\ poolState = "destroyed"

\* The step is a call of a batch operation that returns an error value.
IsBatchCall == lastOp'.op \in {"Send", "ExecResults", "QueryResults", "Close"}

\* C11: a result read on a sent batch without sticky error whose context is
\* cancelled returns the cancellation error, reads no message, leaves the
\* read cursor where it was, makes the cancellation error the sticky error
\* and marks the connection dead; from then on every operation of the batch
\* returns the cancellation error and the sticky error stays.
C11_CancelledRead ==
  [][/\ (IsRead /\ sent /\ err = "nil" /\ ctx = "cancelled")
          => /\ lastOp'.err = "ctxErr"
             /\ ~lastOp'.io
             /\ resultsRead' = resultsRead
             /\ err' = "ctxErr"
             /\ ~alive'
     /\ (IsBatchCall /\ err = "ctxErr")
          => /\ lastOp'.err = "ctxErr"
             /\ err' = "ctxErr"
             /\ ~lastOp'.io]_vars

\* C11 witness: after a read met the cancelled context in the middle of the
\* results, a Close has returned the cancellation error.
C11_Witness ==
  /\ lastOp.op = "Close"
  /\ lastOp.err = "ctxErr"
  /\ err = "ctxErr"
  /\ ~alive
  /\ sent
  /\ resultsRead >= 1
  /\ resultsRead < Len(items)

(***************************************************************************)
(* Claims about the hook, the health-check trigger and ownership, checked  *)
(* under SpecPool.                                                         *)
(***************************************************************************)
\* The step is the end of the hook's task on resource r.
IsHookDone(r) ==
  lastOp'.op = "HookDone" /\ hook[r] = "running" /\ hook'[r] = "none"

\* C12: with a hook configured, a Release that passes the health and expiry
\* checks returns with the hook started once and no call made on the
\* resource yet; the end of the hook's task makes exactly one call on the
\* resource, Release when the hook approved and Destroy with one
\* health-check signal when it rejected; no hook task is running without
\* having been started by such a Release; a Release that destroys the
\* resource or is a no-op starts no hook.
C12_HookOncePerRelease ==
  [][/\ \A h \in Handles :
          /\ (IsRelease(h) /\ res[h] # NoRes /\ afterRelease
                 /\ ~Unhealthy(res[h]) /\ ~isExpired(res[h]))
               => /\ lastOp'.out = "hook"
                  /\ hookStarts' = [hookStarts EXCEPT ![res[h]] = @ + 1]
                  /\ hook[res[h]] = "none"
                  /\ hook'[res[h]] = "running"
                  /\ UNCHANGED <<primCalls, rstatus, hcSignals>>
          /\ (IsRelease(h) /\ (res[h] = NoRes \/ ~afterRelease
                                 \/ Unhealthy(res[h]) \/ isExpired(res[h])))
               => UNCHANGED <<hook, hookStarts>>
     /\ \A r \in Resources :
          IsHookDone(r)
            => /\ UNCHANGED hookStarts
               /\ \/ /\ lastOp'.out = "idle"
                     /\ primCalls' = [primCalls EXCEPT ![r].release = @ + 1]
                     /\ rstatus'[r] = "idle"
                     /\ UNCHANGED hcSignals
                  \/ /\ lastOp'.out = "rejected"
                     /\ primCalls' = [primCalls EXCEPT ![r].destroy = @ + 1]
                     /\ rstatus'[r] = "destroyed"
                     /\ hcSignals' = hcSignals + 1
     /\ (lastOp'.op \notin {"Release", "HookDone"})
          => /\ UNCHANGED hook
             /\ \A r \in Resources : hookStarts'[r] <= hookStarts[r]]_vars

\* C12 witness: the hook started by a Release has rejected the connection,
\* which was destroyed by the one call made on the resource.
C12_Witness ==
  /\ lastOp.op = "HookDone"
  /\ lastOp.out = "rejected"
  /\ \E r \in Resources :
       /\ hookStarts[r] = 1
       /\ hook[r] = "none"
       /\ primCalls[r] = [release |-> 0, destroy |-> 1, hijack |-> 0]
  /\ hcSignals = 1

\* The step raises the health-check signal.
Signalled == hcSignals' > hcSignals

Holders(r) == {h \in Handles : res[h] = r}

Owners(r) == Cardinality(Holders(r)) + (IF hook[r] = "running" THEN 1 ELSE 0)

\* C14: a resource has at most one owner outside the pool, and while it has
\* one it is checked out of the pool, not in the idle set; Acquire hands a
\* resource only out when no handle refers to it and no hook runs on it.
C14_SingleOwner ==
  /\ [](\A r \in Resources :
          /\ Owners(r) <= 1
          /\ Owners(r) = 1 => rstatus[r] = "acquired")
  /\ [][\A h \in Handles, r \in Resources :
          (lastOp'.op = "Acquire" /\ lastOp'.h = h /\ res'[h] = r)
            => (Owners(r) = 0 /\ Holders(r)' = {h})]_vars

\* C14 witness: the second handle got the resource that the first handle
\* released and the hook approved, and the first handle refers to nothing.
C14_Witness ==
  /\ lastOp.op = "Acquire"
  /\ lastOp.h = 2
  /\ hstate[1] = "released"
  /\ res[1] = NoRes
  /\ \E r \in Resources :
       /\ res[2] = r
       /\ hookStarts[r] = 1
       /\ primCalls[r].release = 1
       /\ rstatus[r] = "acquired"

(***************************************************************************)
(* Further claims about the batch, checked under SpecBatch.                *)
(***************************************************************************)
\* C15 (as claimed): a Queue on a batch that was sent adds no item, and no
\* Queue touches the network, the read cursor, the sent flag or the sticky
\* error.
C15_QueueOnlyBeforeSend ==
  [][(lastOp'.op = "Queue")
       => /\ sent => items' = items
          /\ ~lastOp'.io
          /\ UNCHANGED <<resultsRead, sent, err, wire, written,
                         pendingReadyForQueryCount>>]_vars

\* The step calls b.die.
IsDie == lastOp'.die

\* C16 (as claimed): a die call after the first one leaves the sticky
\* error, the connection and the pool as they are, and after a die call
\* the result readers and Close return an error without touching the
\* network.
C16_DieIdempotent ==
  [][/\ (IsDie /\ died)
          => (err' = err /\ poolReleases' = poolReleases /\ alive' = alive)
     /\ ((IsRead \/ IsClose) /\ died)
          => /\ lastOp'.err \notin {"nil", "blocked"}
             /\ ~lastOp'.io]_vars

\* The number of ReadyForQuery messages among the unread messages w.
UnreadReadyForQuery(w) ==
  Cardinality({i \in DOMAIN w : w[i].t = "ReadyForQuery"})

\* The step is a call of Send on a batch that was not sent yet.
IsSend == lastOp'.op = "Send" /\ ~sent

StepsOf(bi) == IF bi.query \in preparedStatements THEN 3 ELSE 4

\* The position in the transmission just before the steps of item k.
RECURSIVE StartOf(_)
StartOf(k) == IF k <= 1 THEN 1 ELSE StartOf(k - 1) + StepsOf(items[k - 1])

\* The steps of item k stand at their place in the transmission w.
ItemStepsAt(w, k) ==
  LET o == StartOf(k)
      bi == items[k]
  IN IF bi.query \in preparedStatements
       THEN /\ w[o + 1] = FMsg("Bind", bi.query)
            /\ w[o + 2].t = "Describe"
            /\ w[o + 3].t = "Execute"
       ELSE /\ w[o + 1] = FMsg("Parse", bi.query)
            /\ w[o + 2] = FMsg("Bind", "")
            /\ w[o + 3].t = "Describe"
            /\ w[o + 4].t = "Execute"

\* C18: the transmission of a Send is: the begin query; for every queued
\* item in queue order Parse (omitted exactly when the statement text is
\* cached, the cached name then being bound), Bind, Describe, Execute; one
\* Sync; one commit query; and nothing else. A Send of a batch holding an
\* item whose arguments cannot be bound writes nothing.
C18_Transmission ==
  [][IsSend
       => /\ (written' # <<>>)
               => LET w == written'
                      n == Len(items)
                  IN /\ Len(w) = StartOf(n + 1) + 2
                     /\ w[1] = FMsg("Query", "begin")
                     /\ \A k \in 1..n : ItemStepsAt(w, k)
                     /\ w[Len(w) - 1].t = "Sync"
                     /\ w[Len(w)] = FMsg("Query", "commit")
                     /\ Cardinality({i \in DOMAIN w : w[i].t = "Sync"}) = 1
                     /\ Cardinality({i \in DOMAIN w : w[i].t = "Query"}) = 2
          /\ lastOp'.err = "nil" => written' # <<>>
          /\ (\E k \in 1..Len(items) : ~items[k].argsOK)
               => (written' = <<>> /\ ~sent' /\ lastOp'.err # "nil")]_vars

\* C18 witness: a Send of a cached and an uncached statement has succeeded;
\* the transmission holds ten messages, with one Parse.
C18_Witness ==
  /\ lastOp.op = "Send"
  /\ lastOp.err = "nil"
  /\ Len(items) = 2
  /\ items[1].query = "select"
  /\ items[2].query = "update"
  /\ Len(written) = 10
  /\ Cardinality({i \in DOMAIN written : written[i].t = "Parse"}) = 1

(***************************************************************************)
(* The signal and the destroy decisions of Release, checked under SpecPool. *)
(***************************************************************************)
\* The step destroys resource r.
Destroys(r) == rstatus[r] # "destroyed" /\ rstatus'[r] = "destroyed"

\* C19: a step of Release or of the hook's task raises the health-check
\* signal exactly once when it destroys the resource and not at all
\* otherwise; a Release of a connection that is closed, busy or in a
\* transaction, a Release of an expired resource and a rejection by the hook
\* destroy the resource; a Release that gives the resource to the idle set
\* or to the hook, or that is a no-op, and an approval by the hook leave the
\* lifetime-destroy counter as it is.
C19_SignalIffDestroy ==
  [][(lastOp'.op \in {"Release", "HookDone"})
       => /\ hcSignals' = hcSignals
                          + (IF \E r \in Resources : Destroys(r) THEN 1 ELSE 0)
          /\ (lastOp'.out \in {"unhealthy", "expired", "rejected"})
               <=> (\E r \in Resources : Destroys(r))
          /\ \A h \in Handles :
               (IsRelease(h) /\ res[h] # NoRes
                  /\ (Unhealthy(res[h]) \/ isExpired(res[h])))
                 => Destroys(res[h])
          /\ (lastOp'.out \in {"idle", "noop", "hook"})
               => UNCHANGED <<hcSignals, hcPending, lifetimeDestroyCount>>]_vars

\* C19 witness: after an expired resource was destroyed with one signal, the
\* Release of the next resource gave it to the idle set without a signal.
C19_Witness ==
  /\ lastOp.op = "Release"
  /\ lastOp.out = "idle"
  /\ hcSignals = 1
  /\ lifetimeDestroyCount = 1
  /\ \E r \in Resources : rstatus[r] = "idle" /\ primCalls[r].release = 1

(***************************************************************************)
(* The release of the batch's connection, checked under SpecBatch.         *)
(***************************************************************************)
\* C20 (as claimed): the connection of a pool-bound batch is released to
\* the pool at most once.
C20_ReleasedAtMostOnce == connPool => poolReleases <= 1

====
